---- MODULE Spec2Model ----
(***************************************************************************)
(* Device-side signalling primitives of c10d::symmetric_memory             *)
(* (torch/csrc/distributed/c10d/CUDASymmetricMemory-inl.h): cas,           *)
(* put_signal, wait_signal and sync_remote_blocks, the alignment probe     *)
(* get_alignment, and the multicast operations multimem_ld_reduce_add and  *)
(* multimem_st.                                                            *)
(*                                                                         *)
(* Memory is modelled with views: a signal-pad slot holds its 32-bit value *)
(* and the view released into it (the set of ranks whose symmetric-buffer  *)
(* writes are ordered before the CAS that wrote the value); a thread holds *)
(* the set of ranks whose buffer writes it is guaranteed to observe.       *)
(* The elements of a multicast buffer are non-negative integers that are   *)
(* rounded to the significand of their type (8 bits for bfloat16, 24 for   *)
(* float) by every addition of the hardware.                               *)
(***************************************************************************)
EXTENDS Integers, FiniteSets, Sequences, TLC

\* ------------------------------------------------------------------ bounds
NumRanks == 2
NumBlocks == 2
NumCallers == 3
MaxVal == 1
MaxEpochs == 3
MaxAddr == 64
NumDevices == 3

\* ------------------------------------------------------- build configurations
\* The preprocessor facts the header tests: USE_ROCM, __CUDA_ARCH__ and
\* CUDART_VERSION (cuda_arch 0: __CUDA_ARCH__ is not defined).
BuildRocm == [use_rocm |-> TRUE, cuda_arch |-> 0, cudart |-> 0]
BuildSm70 == [use_rocm |-> FALSE, cuda_arch |-> 700, cudart |-> 12010]
BuildSm80 == [use_rocm |-> FALSE, cuda_arch |-> 800, cudart |-> 12010]
BuildSm90Old == [use_rocm |-> FALSE, cuda_arch |-> 900, cudart |-> 12000]
BuildSm90 == [use_rocm |-> FALSE, cuda_arch |-> 900, cudart |-> 12010]

Builds == {BuildRocm, BuildSm70, BuildSm80, BuildSm90Old, BuildSm90}

\* #if defined(USE_ROCM) || (defined(__CUDA_ARCH__) && (__CUDA_ARCH__ < 800))
CasUnsupported(b) ==
  b.use_rocm \/ (b.cuda_arch # 0 /\ b.cuda_arch < 800)

\* enum class MemOpSem
MemOpSem == {"Relaxed", "Acquire", "Release", "AcqRel"}

\* ----------------------------------------------------------------- memory
\* A 32-bit word of a signal pad: its value and the view released into it.
ClearCell == [val |-> 0, rel |-> {}]

\* ------------------------------------------------------------------- cas
\* Faulty variant of CAS_ASM: the store is not conditional on the comparison.
CAS_ASM_Blind(cell, compare, val, suffix, tview) ==
  [old_val |-> cell.val,
   cell |-> [val |-> val,
             rel |-> IF suffix \in {".release", ".acq_rel"} THEN tview
                     ELSE {}],
   view |-> IF suffix \in {".acquire", ".acq_rel"} THEN tview \cup cell.rel
            ELSE tview]

\* Faulty variant of CAS_ASM: the result is the value after the instruction.
CAS_ASM_ReturnsNew(cell, compare, val, suffix, tview) ==
  [old_val |-> IF cell.val = compare THEN val ELSE cell.val,
   cell |-> IF cell.val = compare
            THEN [val |-> val,
                  rel |-> IF suffix \in {".release", ".acq_rel"} THEN tview
                          ELSE {}]
            ELSE cell,
   view |-> IF suffix \in {".acquire", ".acq_rel"} THEN tview \cup cell.rel
            ELSE tview]

\* The instruction atom.global<suffix>.sys.cas.b32 old_val, [addr], compare,
\* val executed by a thread whose view is tview on the word cell: old_val is
\* the value the word held, and the word becomes val iff that value equals
\* compare.  A releasing CAS that swaps publishes the thread's view with the
\* value; an acquiring CAS joins the view published with the value it read;
\* .relaxed does neither.
CAS_ASM(cell, compare, val, suffix, tview) ==
  [old_val |-> cell.val,
   cell |-> IF cell.val = compare
            THEN [val |-> val,
                  rel |-> IF suffix \in {".release", ".acq_rel"} THEN tview
                          ELSE {}]
            ELSE cell,
   view |-> IF suffix \in {".acquire", ".acq_rel"} THEN tview \cup cell.rel
            ELSE tview]

\* The outcome of a cas whose instruction ran with result r: old_val is
\* returned.
Ran(r) ==
  [status |-> "ok", old_val |-> r.old_val, cell |-> r.cell, view |-> r.view]

\* CUDA_KERNEL_ASSERT(false): the kernel stops; the instruction does not
\* run, the word and the view are untouched.
KernelAssertFailed(cell, tview) ==
  [status |-> "abort", old_val |-> 0, cell |-> cell, view |-> tview]

\* static_assert(dependent_false_nt<Sem>): the instantiation is rejected by
\* the compiler; no instruction exists to run.
StaticAssertFailed(cell, tview) ==
  [status |-> "static_assert", old_val |-> 0, cell |-> cell, view |-> tview]

\* Variant of cas with a fourth branch: AcqRel emits ".acq_rel".
cas_AcqRelAccepted(sem, b, cell, compare, val, tview) ==
  IF CasUnsupported(b)
  THEN KernelAssertFailed(cell, tview)
  ELSE IF sem = "Relaxed"
  THEN Ran(CAS_ASM(cell, compare, val, ".relaxed", tview))
  ELSE IF sem = "Acquire"
  THEN Ran(CAS_ASM(cell, compare, val, ".acquire", tview))
  ELSE IF sem = "Release"
  THEN Ran(CAS_ASM(cell, compare, val, ".release", tview))
  ELSE Ran(CAS_ASM(cell, compare, val, ".acq_rel", tview))

\* One execution of cas<Sem>(addr, compare, val) under build b, by a thread
\* whose view is tview, on the word cell.
cas(sem, b, cell, compare, val, tview) ==
  IF CasUnsupported(b)
  THEN KernelAssertFailed(cell, tview)
  ELSE IF sem = "Relaxed"
  THEN Ran(CAS_ASM(cell, compare, val, ".relaxed", tview))
  ELSE IF sem = "Acquire"
  THEN Ran(CAS_ASM(cell, compare, val, ".acquire", tview))
  ELSE IF sem = "Release"
  THEN Ran(CAS_ASM(cell, compare, val, ".release", tview))
  ELSE StaticAssertFailed(cell, tview)

\* Faulty variant of put_signal: a single attempt, no retry loop.
put_signal_Once(sem, b, cell, tview) ==
  LET r == cas(sem, b, cell, 0, 1, tview)
  IN  [status |-> r.status, cell |-> r.cell, view |-> r.view,
       returned |-> (r.status = "ok")]

\* Faulty variant of put_signal: a signal that is already there counts as
\* posted, the call returns.
put_signal_Overwrite(sem, b, cell, tview) ==
  LET r == cas(sem, b, cell, 0, 1, tview)
  IN  [status |-> r.status, cell |-> r.cell, view |-> r.view,
       returned |-> (r.status = "ok" /\ r.cell.val = 1)]

\* One iteration of the loop of put_signal<Sem>(addr):
\*   while (cas<Sem>(addr, 0, 1) != 0) ;
\* returned: the loop condition was false, the call returns.
put_signal(sem, b, cell, tview) ==
  LET r == cas(sem, b, cell, 0, 1, tview)
  IN  [status |-> r.status, cell |-> r.cell, view |-> r.view,
       returned |-> (r.status = "ok" /\ ~(r.old_val # 0))]

\* Faulty variant of wait_signal: the signal is observed but not cleared.
wait_signal_NoClear(sem, b, cell, tview) ==
  LET r == cas(sem, b, cell, 1, 1, tview)
  IN  [status |-> r.status, cell |-> r.cell, view |-> r.view,
       returned |-> (r.status = "ok" /\ ~(r.old_val # 1))]

\* Faulty variant of wait_signal: the body of put_signal.
wait_signal_AsPut(sem, b, cell, tview) ==
  LET r == cas(sem, b, cell, 0, 1, tview)
  IN  [status |-> r.status, cell |-> r.cell, view |-> r.view,
       returned |-> (r.status = "ok" /\ ~(r.old_val # 0))]

\* Faulty variant of wait_signal: a single attempt, the thread gives up when
\* the signal is not there.
wait_signal_Once(sem, b, cell, tview) ==
  LET r == cas(sem, b, cell, 1, 0, tview)
  IN  [status |-> r.status, cell |-> r.cell, view |-> r.view,
       returned |-> (r.status = "ok")]

\* One iteration of the loop of wait_signal<Sem>(addr):
\*   while (cas<Sem>(addr, 1, 0) != 1) ;
\* returned: the loop condition was false, the call returns.
wait_signal(sem, b, cell, tview) ==
  LET r == cas(sem, b, cell, 1, 0, tview)
  IN  [status |-> r.status, cell |-> r.cell, view |-> r.view,
       returned |-> (r.status = "ok" /\ ~(r.old_val # 1))]

\* ------------------------------------------------------------ get_alignment
\* The alignments get_alignment distinguishes.
Alignments == {16, 8, 4, 2, 1}

\* Faulty variant of get_alignment: 8 is tested before 16.
get_alignment_EightFirst(val) ==
  IF val % 8 = 0 THEN 8
  ELSE IF val % 16 = 0 THEN 16
  ELSE IF val % 4 = 0 THEN 4
  ELSE IF val % 2 = 0 THEN 2
  ELSE 1

\* get_alignment(ptr_or_size) on val = reinterpret_cast<uintptr_t>(ptr_or_size).
get_alignment(val) ==
  IF val % 16 = 0 THEN 16
  ELSE IF val % 8 = 0 THEN 8
  ELSE IF val % 4 = 0 THEN 4
  ELSE IF val % 2 = 0 THEN 2
  ELSE 1

\* get_alignment<size_t>(size): the size is cast to void* and handed to the
\* pointer version, which casts it back to the same integer.
get_alignment_size_t(size) == get_alignment(size)

\* -------------------------------------------------------- multicast memory
\* Faulty variant of NvccSupportsMulticast: the toolkit version is not
\* looked at.
NvccSupportsMulticast_AnyToolkit(b) ==
  b.cuda_arch # 0 /\ b.cuda_arch >= 900

\* NVCC_SUPPORTS_MULTICAST:
\*   defined(__CUDA_ARCH__) && (__CUDA_ARCH__ >= 900) && CUDART_VERSION >= 12010
NvccSupportsMulticast(b) ==
  b.cuda_arch # 0 /\ b.cuda_arch >= 900 /\ b.cudart >= 12010

\* #if defined(USE_ROCM) || !defined(NVCC_SUPPORTS_MULTICAST)
MulticastUnsupported(b) == b.use_rocm \/ ~NvccSupportsMulticast(b)

\* The sizes for which union Vec<Size> is specialized.
VecWidths == {4, 8, 16}

\* The uint32_t members u32[0] .. of Vec<Alignment>, counted from 1.
WordIds(Alignment) == 1 .. Alignment \div 4

\* asm_type of the two specializations: at::BFloat16 and float.
AsmTypes == {"bf16x2", "f32"}

\* Elements packed in one 32-bit word: two bfloat16 or one float.
ElementsPerWord(asm_type) == IF asm_type = "bf16x2" THEN 2 ELSE 1

\* Bits of significand of an element (hidden bit included).
Significand(asm_type) == IF asm_type = "bf16x2" THEN 8 ELSE 24

\* Element values are non-negative integers; an element of p bits of
\* significand holds n exactly when n has at most p significant bits.
\* The spacing of the p-bit floating-point numbers around n.
RECURSIVE UlpFrom(_, _, _)
UlpFrom(n, p, u) == IF n < u * 2^p THEN u ELSE UlpFrom(n, p, 2 * u)

\* n rounded to p bits of significand, to nearest, ties to even.
RoundTo(n, p) ==
  LET u == UlpFrom(n, p, 1)
      q == n \div u
      r == n % u
  IN  IF 2 * r > u \/ (2 * r = u /\ q % 2 = 1) THEN (q + 1) * u ELSE q * u

Representable(n, p) == RoundTo(n, p) = n

RECURSIVE ExactSum(_)
ExactSum(vals) ==
  IF vals = <<>> THEN 0 ELSE Head(vals) + ExactSum(Tail(vals))

\* The sum of vals accumulated left to right in p bits, rounding after every
\* addition.
RECURSIVE RoundedSum(_, _, _)
RoundedSum(acc, vals, p) ==
  IF vals = <<>> THEN acc
  ELSE RoundedSum(RoundTo(acc + Head(vals), p), Tail(vals), p)

Reverse(vals) == [i \in 1 .. Len(vals) |-> vals[Len(vals) + 1 - i]]

\* The add-reduction of the hardware: the order of summation over the
\* devices and the precision of the accumulator are not fixed; the result is
\* an element of p bits.
AccModes == {"wide", "ascending", "descending"}

HardwareAdd(vals, p, mode) ==
  IF mode = "wide" THEN RoundTo(ExactSum(vals), p)
  ELSE IF mode = "ascending" THEN RoundedSum(0, vals, p)
  ELSE RoundedSum(0, Reverse(vals), p)

\* multimem.ld_reduce.relaxed.sys.global.add[.v2|.v4].asm_type: words 1..n of
\* the result are the elementwise sums over the copies of all devices.
LdReduceAsm(n, asm_type, copies, mode) ==
  [i \in 1 .. n |->
     [e \in 1 .. ElementsPerWord(asm_type) |->
        HardwareAdd([d \in 1 .. Len(copies) |-> copies[d][i][e]],
                    Significand(asm_type), mode)]]

\* multimem.st.relaxed.sys.global[.v2|.v4].f32: words 1..n of vec are written
\* to the copy of every device, bit for bit.
StAsm(n, copies, vec) ==
  [d \in 1 .. Len(copies) |->
     [i \in DOMAIN copies[d] |-> IF i <= n THEN vec[i] ELSE copies[d][i]]]

\* CUDA_KERNEL_ASSERT(false) in a multicast operation: the kernel stops,
\* nothing is returned and nothing is written.
MulticastAssertFailed(copies) ==
  [status |-> "abort", vec |-> <<>>, mem |-> copies]

\* Faulty variant of multimem_ld_reduce_add: Alignment 16 uses the .v2 form,
\* u32[2] and u32[3] are returned as they were (zero).
multimem_ld_reduce_add_V2(Alignment, asm_type, b, copies, mode) ==
  IF MulticastUnsupported(b) THEN MulticastAssertFailed(copies)
  ELSE [status |-> "ok", mem |-> copies,
        vec |-> LdReduceAsm(IF Alignment = 4 THEN 1 ELSE 2,
                            asm_type, copies, mode)
                \o (IF Alignment = 16
                    THEN [i \in 1 .. 2 |->
                            [e \in 1 .. ElementsPerWord(asm_type) |-> 0]]
                    ELSE <<>>)]

\* multimem_ld_reduce_add<Alignment, T>(mc_ptr) under build b, copies[d]
\* being the words of device d at the multicast address.
multimem_ld_reduce_add(Alignment, asm_type, b, copies, mode) ==
  IF MulticastUnsupported(b) THEN MulticastAssertFailed(copies)
  ELSE [status |-> "ok", mem |-> copies,
        vec |-> IF Alignment = 16 THEN LdReduceAsm(4, asm_type, copies, mode)
                ELSE IF Alignment = 8
                THEN LdReduceAsm(2, asm_type, copies, mode)
                ELSE LdReduceAsm(1, asm_type, copies, mode)]

\* Faulty variant of multimem_st: every width stores u32[0] only.
multimem_st_Scalar(Alignment, b, copies, vec) ==
  IF MulticastUnsupported(b) THEN MulticastAssertFailed(copies)
  ELSE [status |-> "ok", vec |-> <<>>, mem |-> StAsm(1, copies, vec)]

\* multimem_st<Alignment, T>(mc_ptr, vec) under build b.
multimem_st(Alignment, b, copies, vec) ==
  IF MulticastUnsupported(b) THEN MulticastAssertFailed(copies)
  ELSE [status |-> "ok", vec |-> <<>>,
        mem |-> IF Alignment = 16 THEN StAsm(4, copies, vec)
                ELSE IF Alignment = 8 THEN StAsm(2, copies, vec)
                ELSE StAsm(1, copies, vec)]

\* ------------------------------------------------------ sync_remote_blocks
\* The two specializations of sync_remote_blocks<Sem>.
SyncSems == {"Relaxed", "AcqRel"}

\* Faulty variant of PutSem: the AcqRel specialization puts with Relaxed.
PutSem_Relaxed(sem) == "Relaxed"

\* The ordering of the put_signal of sync_remote_blocks<sem>.
PutSem(sem) == IF sem = "AcqRel" THEN "Release" ELSE "Relaxed"

\* The ordering of the wait_signal of sync_remote_blocks<sem>.
WaitSem(sem) == IF sem = "AcqRel" THEN "Acquire" ELSE "Relaxed"

\* Faulty variant of Participates: the thread with index world_size takes
\* part as well.
Participates_Inclusive(tid, ws) == tid <= ws

\* if (threadIdx.x < world_size)
Participates(tid, ws) == tid < ws

\* Faulty variant of PutAddr: rank and target_rank exchanged.
PutAddr_OwnPad(rank, tid, blk, ws) == <<rank, blk * ws + tid>>

\* Faulty variant of PutAddr: blockIdx.x is not scaled by world_size.
PutAddr_NoStride(rank, tid, blk, ws) == <<tid, blk + rank>>

\* signal_pads[target_rank] + blockIdx.x * world_size + rank, as
\* <<pad, offset>>, with target_rank = threadIdx.x.
PutAddr(rank, tid, blk, ws) == <<tid, blk * ws + rank>>

\* Faulty variant of WaitAddr: the wait is on the slot the thread has just
\* put to, in the target rank's pad.
WaitAddr_PeerPad(rank, tid, blk, ws) == <<tid, blk * ws + rank>>

\* Faulty variant of WaitAddr: the slot of the own rank, not target_rank's.
WaitAddr_OwnSlot(rank, tid, blk, ws) == <<rank, blk * ws + rank>>

\* signal_pads[rank] + blockIdx.x * world_size + target_rank.
WaitAddr(rank, tid, blk, ws) == <<rank, blk * ws + tid>>

\* -------------------------------------------------------------------- state
VARIABLES
  build,        \* the build configuration of the kernel
  sync_sem,     \* template argument of the sync_remote_blocks call
  world_size,   \* argument world_size
  blockIdx,     \* blockIdx.x of the thread blocks that rendezvous
  signal_pads,  \* signal_pads[rank][offset]: a word of rank's signal pad
  pc,           \* pc[rank][threadIdx.x]: position of the thread in the call
  view,         \* view[rank][threadIdx.x]: the thread's view
  aborted,      \* aborted[rank]: the rank's kernel hit CUDA_KERNEL_ASSERT
  buf,          \* buf[rank]: the symmetric-buffer word rank's block writes
  observed,     \* observed[rank][threadIdx.x]: the values the thread has
                \* read of buf[threadIdx.x] after the call
  word,         \* one 32-bit word driven directly by cas / put / wait
  word0,        \* the value of word before the first operation
  callers,      \* callers[i]: a thread executing one cas on word
  cas_compare,  \* the compare argument of the racing cas calls
  cas_val,      \* the val argument of the racing cas calls
  put_sem,      \* template argument of the producer's put_signal
  wait_sem,     \* template argument of the consumer's wait_signal
  epochs,       \* number of put_signal / wait_signal calls of each party
  puts,         \* put_signal calls that have returned
  waits,        \* wait_signal calls that have returned
  trace,        \* the values word has taken, in order
  halted,       \* the producer/consumer kernel stopped (abort or rejection)
  absent,       \* the ranks whose block never reaches the call
  put_calls,    \* number of put_signal calls the lone producer makes
  wait_calls,   \* number of wait_signal calls the lone consumer makes
  spun,         \* the parties whose current call has had a failed attempt
  align_val,    \* the pointer or size handed to get_alignment
  align_kind,   \* which get_alignment was called: "none", "ptr" or "size"
  align_ret,    \* the value get_alignment returned, {} before the call
  mc_type,      \* asm_type of the element type of the multicast buffer
  mc_align,     \* template argument Alignment of the multicast operations
  mem,          \* mem[d][i]: word i of device d's copy at the multicast
                \* address, a tuple of elements
  mc_stored,    \* {} or the one multimem_st made: its vec, and whether the
                \* copies of the other devices were zero before it
  mc_ret,       \* {} or the Vec the last multimem_ld_reduce_add returned
  mc_aborted,   \* the kernel was stopped by a device assertion
  num_calls,    \* K: the calls of sync_remote_blocks every block makes in a row
  epoch         \* epoch[rank][threadIdx.x]: the calls the thread has made
                \* before the one it is in

paramVars == <<build, sync_sem, world_size, blockIdx, absent>>
syncVars == <<signal_pads, pc, view, aborted>>
visVars == <<buf, observed>>
wordVars == <<word, word0>>
casVars == <<callers, cas_compare, cas_val>>
semVars == <<put_sem, wait_sem, epochs, puts, waits, trace, halted>>
callVars == <<put_calls, wait_calls, spun>>
alignVars == <<align_val, align_kind, align_ret>>
mcVars == <<mc_type, mc_align, mem, mc_stored, mc_ret, mc_aborted>>
epochVars == <<num_calls, epoch>>
extVars == <<callVars, alignVars, mcVars, epochVars>>
\* extVars without callVars, without alignVars, without mcVars, without
\* epochVars.
extButCalls == <<alignVars, mcVars, epochVars>>
extButAlign == <<callVars, mcVars, epochVars>>
extButMc == <<callVars, alignVars, epochVars>>
extButEpochs == <<callVars, alignVars, mcVars>>
vars == <<paramVars, syncVars, visVars, wordVars, casVars, semVars, extVars>>

RankIds == 0 .. NumRanks - 1
\* blockDim.x: one thread more than the largest world size.
ThreadIds == 0 .. NumRanks
Offsets == 0 .. NumBlocks * NumRanks - 1
Ranks == 0 .. world_size - 1
CallerIds == 1 .. NumCallers
Vals == 0 .. MaxVal

InitSync ==
  /\ signal_pads = [r \in RankIds |-> [o \in Offsets |-> ClearCell]]
  /\ pc = [r \in RankIds |-> [t \in ThreadIds |-> "start"]]
  /\ view = [r \in RankIds |-> [t \in ThreadIds |-> {}]]
  /\ aborted = [r \in RankIds |-> FALSE]
  /\ buf = [r \in RankIds |-> 0]
  /\ observed = [r \in RankIds |-> [t \in ThreadIds |-> {}]]

ReadyCaller == [pc |-> "ready", sem |-> "Relaxed", old_val |-> 0]

IdleCas ==
  /\ callers = [i \in CallerIds |-> ReadyCaller]
  /\ cas_compare = 0
  /\ cas_val = 0

IdleSem ==
  /\ put_sem = "Relaxed"
  /\ wait_sem = "Relaxed"
  /\ epochs = 0
  /\ puts = 0
  /\ waits = 0
  /\ trace = <<0>>
  /\ halted = FALSE

IdleWord ==
  /\ word = ClearCell
  /\ word0 = 0

IdleCalls ==
  /\ put_calls = 0
  /\ wait_calls = 0
  /\ spun = {}

IdleAlign ==
  /\ align_val = 0
  /\ align_kind = "none"
  /\ align_ret = {}

Devices == 1 .. NumDevices

\* The word whose elements are a, b, a, ... starting with a.
WordOf(asm_type, a, b) ==
  [e \in 1 .. ElementsPerWord(asm_type) |-> IF e % 2 = 1 THEN a ELSE b]

IdleMc ==
  /\ mc_type = "f32"
  /\ mc_align = 4
  /\ mem = [d \in Devices |-> [i \in WordIds(4) |-> WordOf("f32", 0, 0)]]
  /\ mc_stored = {}
  /\ mc_ret = {}
  /\ mc_aborted = FALSE

IdleEpochs ==
  /\ num_calls = 1
  /\ epoch = [r \in RankIds |-> [t \in ThreadIds |-> 0]]

IdleExt == IdleCalls /\ IdleAlign /\ IdleMc /\ IdleEpochs

\* A kernel of world_size ranks is launched on an all-zero signal pad; its
\* blocks are to call sync_remote_blocks<sync_sem>.
InitPads ==
  /\ build \in {BuildRocm, BuildSm70, BuildSm80}
  /\ sync_sem \in SyncSems
  /\ world_size \in 1 .. NumRanks
  /\ blockIdx \in 0 .. NumBlocks - 1
  /\ InitSync
  /\ IdleWord /\ IdleCas /\ IdleSem
  /\ IdleCalls /\ IdleAlign /\ IdleMc
  /\ epoch = [r \in RankIds |-> [t \in ThreadIds |-> 0]]

\* Every rank's block is about to call sync_remote_blocks<sync_sem> on an
\* all-zero signal pad.
Init == InitPads /\ absent = {} /\ num_calls = 1

\* The block of rank reaches the call: every thread evaluates
\* threadIdx.x < world_size; the others return at once.  (A participating
\* thread that has not yet made its first attempt is at "put": the threads of
\* a block need not arrive together for that.)
Call(rank) ==
  /\ rank \in Ranks
  /\ ~aborted[rank]
  /\ \A t \in ThreadIds : pc[rank][t] = "start"
  /\ pc' = [pc EXCEPT ![rank] =
              [t \in ThreadIds |->
                 IF Participates(t, world_size) THEN "put" ELSE "done"]]
  /\ UNCHANGED <<signal_pads, view, aborted>>
  /\ UNCHANGED <<paramVars, extVars, visVars, wordVars, casVars, semVars>>

\* One iteration of the put_signal loop of thread tid of rank.
Put(rank, tid) ==
  /\ rank \in Ranks
  /\ ~aborted[rank]
  /\ pc[rank][tid] = "put"
  /\ LET a == PutAddr(rank, tid, blockIdx, world_size)
         r == put_signal(PutSem(sync_sem), build, signal_pads[a[1]][a[2]],
                         view[rank][tid])
     IN  /\ signal_pads' = [signal_pads EXCEPT ![a[1]][a[2]] = r.cell]
         /\ view' = [view EXCEPT ![rank][tid] = r.view]
         /\ aborted' = [aborted EXCEPT ![rank] = (r.status = "abort")]
         /\ pc' = [pc EXCEPT ![rank][tid] =
                     IF r.returned THEN "wait" ELSE "put"]
  /\ UNCHANGED <<paramVars, extVars, visVars, wordVars, casVars, semVars>>

\* One iteration of the wait_signal loop of thread tid of rank.
Wait(rank, tid) ==
  /\ rank \in Ranks
  /\ ~aborted[rank]
  /\ pc[rank][tid] = "wait"
  /\ LET a == WaitAddr(rank, tid, blockIdx, world_size)
         r == wait_signal(WaitSem(sync_sem), build, signal_pads[a[1]][a[2]],
                          view[rank][tid])
     IN  /\ signal_pads' = [signal_pads EXCEPT ![a[1]][a[2]] = r.cell]
         /\ view' = [view EXCEPT ![rank][tid] = r.view]
         /\ aborted' = [aborted EXCEPT ![rank] = (r.status = "abort")]
         /\ pc' = [pc EXCEPT ![rank][tid] =
                     IF r.returned THEN "done" ELSE "wait"]
  /\ UNCHANGED <<paramVars, extVars, visVars, wordVars, casVars, semVars>>

Next ==
  \/ \E rank \in RankIds : Call(rank)
  \/ \E rank \in RankIds, tid \in ThreadIds : Put(rank, tid)
  \/ \E rank \in RankIds, tid \in ThreadIds : Wait(rank, tid)

Spec == Init /\ [][Next]_vars

\* The rendezvous of one fixed block index under fair scheduling.  Every
\* thread inside put_signal or wait_signal keeps executing its loop and every
\* block at the call enters it; all that is used of this is its consequence
\* that the system does not stop while some step would change the state.
InitFair == Init /\ blockIdx = NumBlocks - 1

Fairness == WF_vars(Next)

FairSpec == InitFair /\ [][Next]_vars /\ Fairness

\* ---------------------------------------------- properties of the rendezvous
\* The slots of block index blk for world size ws: offsets blk*ws .. blk*ws+ws-1.
BlockSlots(blk, ws) == {o \in Offsets : blk * ws <= o /\ o < (blk + 1) * ws}

AllReturned == \A r \in Ranks, t \in ThreadIds : pc[r][t] = "done"

\* C1: on a build where cas is compiled (not ROCm, sm_80 or later), when every
\* rank's block calls sync_remote_blocks (Relaxed or AcqRel) on an all-zero
\* signal pad and threads are scheduled fairly, every thread of every rank
\* eventually returns from the call.
C1_AllRanksReturn == (~CasUnsupported(build)) => <>AllReturned

C1_Witness ==
  /\ AllReturned
  /\ world_size = NumRanks
  /\ sync_sem = "Relaxed"
  /\ blockIdx = NumBlocks - 1
  /\ \A r \in Ranks : ~aborted[r]

\* C2: once every thread of every rank has returned from the call for block
\* index blockIdx, every slot the call touched (offsets blockIdx*world_size + r
\* of every rank's pad) holds 0 again.
C2_SlotsBackAtZero ==
  AllReturned =>
    \A r \in Ranks, o \in BlockSlots(blockIdx, world_size) :
      signal_pads[r][o].val = 0

C2_Witness ==
  /\ AllReturned
  /\ world_size = NumRanks
  /\ sync_sem = "AcqRel"
  /\ blockIdx = 0

\* C3: thread r of rank A has returned only if thread A of rank r has
\* completed its put_signal (the one addressed to A); hence when all
\* participating threads of rank A have returned, the block of every rank has
\* entered the call.
C3_Rendezvous ==
  /\ \A A \in Ranks, r \in Ranks :
       pc[A][r] = "done" => pc[r][A] \in {"wait", "done"}
  /\ \A A \in Ranks :
       (\A t \in Ranks : pc[A][t] = "done") =>
         \A r \in Ranks, t \in ThreadIds : pc[r][t] # "start"

C3_Witness ==
  /\ world_size = NumRanks
  /\ pc[0][NumRanks - 1] = "done"
  /\ pc[NumRanks - 1][0] = "wait"

\* A thread of the active blocks takes the step pc: from -> to on the slot
\* <<r, o>>, which it addresses as its put slot (isPut) or its wait slot.
StepOn(r, o, from, to, isPut) ==
  \E rank \in Ranks, tid \in ThreadIds :
    /\ pc[rank][tid] = from
    /\ pc'[rank][tid] = to
    /\ Participates(tid, world_size)
    /\ <<r, o>> = IF isPut THEN <<tid, blockIdx * world_size + rank>>
                  ELSE <<rank, blockIdx * world_size + tid>>

\* C4: every signal-pad slot holds 0 or 1; a slot goes from 0 to 1 only in a
\* step in which a thread's put_signal succeeds on it, and from 1 to 0 only in
\* a step in which a thread's wait_signal succeeds on it; no other step
\* changes a slot.
C4_SlotTransitions ==
  /\ [](\A r \in RankIds, o \in Offsets : signal_pads[r][o].val \in {0, 1})
  /\ [][\A r \in RankIds, o \in Offsets :
          signal_pads'[r][o].val # signal_pads[r][o].val =>
            \/ /\ signal_pads[r][o].val = 0
               /\ signal_pads'[r][o].val = 1
               /\ StepOn(r, o, "put", "wait", TRUE)
            \/ /\ signal_pads[r][o].val = 1
               /\ signal_pads'[r][o].val = 0
               /\ StepOn(r, o, "wait", "done", FALSE)]_vars

C4_Witness ==
  /\ world_size = NumRanks
  /\ pc[0][1] = "done"
  /\ signal_pads[0][blockIdx * world_size + 1].val = 0
  /\ signal_pads[1][blockIdx * world_size].val = 1

\* C10: a call made by block blockIdx with world size world_size addresses
\* only offsets blockIdx*world_size + r (0 <= r < world_size) of the pads of
\* ranks 0..world_size-1, and every slot of another block index keeps its
\* value.
C10_OtherBlocksUntouched ==
  /\ \A r \in RankIds, o \in Offsets :
       (r \notin Ranks \/ o \notin BlockSlots(blockIdx, world_size)) =>
         signal_pads[r][o] = ClearCell
  /\ \A rank \in Ranks, tid \in ThreadIds :
       /\ pc[rank][tid] = "put" =>
            LET a == PutAddr(rank, tid, blockIdx, world_size)
            IN  a[1] \in Ranks /\ a[2] \in BlockSlots(blockIdx, world_size)
       /\ pc[rank][tid] = "wait" =>
            LET a == WaitAddr(rank, tid, blockIdx, world_size)
            IN  a[1] \in Ranks /\ a[2] \in BlockSlots(blockIdx, world_size)

C10_Witness ==
  /\ world_size = NumRanks
  /\ blockIdx = 1
  /\ signal_pads[1][world_size].val = 1
  /\ pc[0][1] = "wait"

\* ------------------------------------------------- cas under contention
\* NumCallers threads each execute cas<Sem>(&word, cas_compare, cas_val) once,
\* concurrently, each with an ordering of its own.
InitCas ==
  /\ build \in {BuildRocm, BuildSm70, BuildSm80}
  /\ word0 \in Vals
  /\ word = [val |-> word0, rel |-> {}]
  /\ cas_compare \in Vals
  /\ cas_val \in Vals
  /\ callers = [i \in CallerIds |-> ReadyCaller]
  /\ sync_sem = "Relaxed" /\ world_size = 1 /\ blockIdx = 0 /\ absent = {}
  /\ IdleExt
  /\ InitSync /\ IdleSem

\* Caller i executes its cas<sem>: the instruction runs ("done"), the kernel
\* aborts ("aborted") or the instantiation does not compile ("rejected").
CasCall(i, sem) ==
  /\ callers[i].pc = "ready"
  /\ \A j \in CallerIds : callers[j].pc # "aborted"
  /\ LET r == cas(sem, build, word, cas_compare, cas_val, {})
     IN  /\ word' = r.cell
         /\ callers' = [callers EXCEPT ![i] =
              [pc |-> CASE r.status = "ok" -> "done"
                        [] r.status = "abort" -> "aborted"
                        [] OTHER -> "rejected",
               sem |-> sem,
               old_val |-> r.old_val]]
  /\ UNCHANGED <<word0, cas_compare, cas_val>>
  /\ UNCHANGED <<paramVars, extVars, syncVars, visVars, semVars>>

NextCas == \E i \in CallerIds, sem \in MemOpSem : CasCall(i, sem)

SpecCas == InitCas /\ [][NextCas]_vars

CasCompiled == ~CasUnsupported(build)

\* C6: on a build where cas is compiled, when the callers execute
\* cas(addr, c, v) with c # v on a word holding c, at no time have two callers
\* observed c; as soon as one caller has executed, exactly one caller has
\* observed c and the word holds v (one swap), so every other caller observes
\* a value other than c and writes nothing.
C6_OneWinner ==
  (CasCompiled /\ cas_compare # cas_val /\ word0 = cas_compare)
  =>
  LET done == {i \in CallerIds : callers[i].pc = "done"}
      winners == {i \in done : callers[i].old_val = cas_compare}
  IN  /\ Cardinality(winners) <= 1
      /\ done # {} => Cardinality(winners) = 1 /\ word.val = cas_val
      /\ done = {} => word.val = word0
      /\ \A i \in done \ winners : callers[i].old_val = cas_val

C6_Witness ==
  /\ cas_compare # cas_val
  /\ word0 = cas_compare
  /\ \A i \in CallerIds : callers[i].pc = "done"
  /\ callers[NumCallers].old_val = cas_compare

\* C7: on a build where cas is compiled, a cas(addr, compare, val) with one of
\* the orderings Relaxed, Acquire, Release returns the value the word held
\* immediately before the step, and the word afterwards holds val if that
\* value equals compare and is unchanged otherwise.
C7_CasContract ==
  [][\A i \in CallerIds :
       (/\ callers[i].pc = "ready"
        /\ callers'[i].pc # "ready"
        /\ CasCompiled
        /\ callers'[i].sem # "AcqRel")
       =>
       /\ callers'[i].pc = "done"
       /\ callers'[i].old_val = word.val
       /\ word'.val = IF word.val = cas_compare THEN cas_val ELSE word.val]_vars

C7_Witness ==
  /\ CasCompiled
  /\ cas_compare # cas_val
  /\ word0 # cas_compare
  /\ callers[1].pc = "done"
  /\ callers[1].old_val = word0
  /\ word.val = word0

\* C8 (as claimed): cas can be instantiated with every ordering of MemOpSem;
\* no instantiation is rejected.
C8_AllOrderingsAccepted ==
  CasCompiled => \A i \in CallerIds : callers[i].pc # "rejected"

\* C8 (amended): on a build where cas is compiled, cas performs the
\* compare-and-swap for Relaxed, Acquire and Release, and the instantiation
\* with AcqRel is rejected (static_assert) and touches nothing.
C8_ThreeOrderingsAccepted ==
  CasCompiled =>
    /\ \A i \in CallerIds :
         callers[i].pc # "ready" =>
           /\ callers[i].pc = "rejected" <=> callers[i].sem = "AcqRel"
           /\ callers[i].pc = "done" <=>
                callers[i].sem \in {"Relaxed", "Acquire", "Release"}
    /\ (\A i \in CallerIds : callers[i].pc \in {"ready", "rejected"}) =>
         word.val = word0

C8_Witness ==
  /\ CasCompiled
  /\ callers[1].pc = "rejected"
  /\ callers[1].sem = "AcqRel"
  /\ callers[2].pc = "done"
  /\ callers[2].sem = "Release"

\* ------------------------------------------------ put / wait on one slot
\* A producer calls put_signal<put_sem>(&word) epochs times and a consumer
\* calls wait_signal<wait_sem>(&word) epochs times; word starts at 0.
InitSem ==
  /\ build \in {BuildRocm, BuildSm70, BuildSm80}
  /\ put_sem \in MemOpSem
  /\ wait_sem \in MemOpSem
  /\ epochs \in 1 .. MaxEpochs
  /\ puts = 0
  /\ waits = 0
  /\ trace = <<0>>
  /\ halted = FALSE
  /\ IdleWord /\ IdleCas
  /\ sync_sem = "Relaxed" /\ world_size = 1 /\ blockIdx = 0 /\ absent = {}
  /\ IdleExt
  /\ InitSync

\* The sequence of values of word after a step that leaves it at cell.
Observe(cell) ==
  IF cell.val # word.val THEN Append(trace, cell.val) ELSE trace

\* One iteration of the loop of the producer's current put_signal call.
Producer ==
  /\ ~halted
  /\ puts < epochs
  /\ LET r == put_signal(put_sem, build, word, {})
     IN  /\ word' = r.cell
         /\ trace' = Observe(r.cell)
         /\ puts' = IF r.returned THEN puts + 1 ELSE puts
         /\ halted' = (r.status # "ok")
  /\ UNCHANGED <<word0, put_sem, wait_sem, epochs, waits>>
  /\ UNCHANGED <<paramVars, extVars, syncVars, visVars, casVars>>

\* One iteration of the loop of the consumer's current wait_signal call.
Consumer ==
  /\ ~halted
  /\ waits < epochs
  /\ LET r == wait_signal(wait_sem, build, word, {})
     IN  /\ word' = r.cell
         /\ trace' = Observe(r.cell)
         /\ waits' = IF r.returned THEN waits + 1 ELSE waits
         /\ halted' = (r.status # "ok")
  /\ UNCHANGED <<word0, put_sem, wait_sem, epochs, puts>>
  /\ UNCHANGED <<paramVars, extVars, syncVars, visVars, casVars>>

NextSem == Producer \/ Consumer

SpecSem == InitSem /\ [][NextSem]_vars

\* C5: the values the slot takes alternate 0,1,0,1,...; the k-th put returns
\* only after the (k-1)-th wait has returned, the k-th wait only after the
\* k-th put has returned, and every returned call made exactly one
\* transition (none lost, none duplicated).
C5_BinarySemaphore ==
  /\ \A k \in 1 .. Len(trace) : trace[k] = (k - 1) % 2
  /\ waits <= puts
  /\ puts <= waits + 1
  /\ Len(trace) = 1 + puts + waits
  /\ word.val = trace[Len(trace)]

C5_Witness ==
  /\ epochs = MaxEpochs
  /\ puts = MaxEpochs
  /\ waits = MaxEpochs
  /\ put_sem = "Release"
  /\ wait_sem = "Acquire"

\* ------------------------------------------- Pattern 1: write, sync, read
\* What a read of buf[a] by a thread with view tview can return: the written
\* value if the write is in the thread's view, otherwise that or the initial
\* value 0 (no ordering: the write need not be visible yet).
ReadValues(a, tview) == IF a \in tview THEN {buf[a]} ELSE {0, buf[a]}

\* Pattern 1 up to the call: the block of rank writes its symmetric-buffer
\* word, passes __syncthreads() (the write is then ordered before whatever
\* any thread of the block does next) and calls sync_remote_blocks.
WriteThenCall(rank) ==
  /\ rank \in Ranks
  /\ ~aborted[rank]
  /\ \A t \in ThreadIds : pc[rank][t] = "start"
  /\ buf' = [buf EXCEPT ![rank] = 1]
  /\ view' = [view EXCEPT ![rank] =
                [t \in ThreadIds |-> view[rank][t] \cup {rank}]]
  /\ pc' = [pc EXCEPT ![rank] =
              [t \in ThreadIds |->
                 IF Participates(t, world_size) THEN "put" ELSE "done"]]
  /\ UNCHANGED <<signal_pads, aborted, observed>>
  /\ UNCHANGED <<paramVars, extVars, wordVars, casVars, semVars>>

\* After its call has returned, the thread of rank whose target is tid reads
\* the word the block of rank tid wrote.
Read(rank, tid) ==
  /\ rank \in Ranks
  /\ tid \in Ranks
  /\ ~aborted[rank]
  /\ pc[rank][tid] = "done"
  /\ observed[rank][tid] = {}
  /\ \E v \in ReadValues(tid, view[rank][tid]) :
       observed' = [observed EXCEPT ![rank][tid] = {v}]
  /\ UNCHANGED <<buf, syncVars>>
  /\ UNCHANGED <<paramVars, extVars, wordVars, casVars, semVars>>

NextVis ==
  \/ \E rank \in RankIds : WriteThenCall(rank)
  \/ \E rank \in RankIds, tid \in ThreadIds : Put(rank, tid)
  \/ \E rank \in RankIds, tid \in ThreadIds : Wait(rank, tid)
  \/ \E rank \in RankIds, tid \in ThreadIds : Read(rank, tid)

\* Pattern 1 is written with sync_remote_blocks<MemOpSem::AcqRel>; one block
\* index is followed.
InitVis == Init /\ sync_sem = "AcqRel" /\ blockIdx = 0

SpecVis == InitVis /\ [][NextVis]_vars

\* C9: with sync_remote_blocks<AcqRel>, the write rank A's block performs
\* before its call is observed by the read that rank B's thread for target A
\* performs after its call has returned, for all ranks A and B.
C9_AcqRelVisibility ==
  sync_sem = "AcqRel" =>
    \A B \in Ranks, A \in Ranks :
      observed[B][A] \subseteq {1}

C9_Witness ==
  /\ sync_sem = "AcqRel"
  /\ world_size = NumRanks
  /\ observed[NumRanks - 1][0] = {1}
  /\ observed[0][NumRanks - 1] = {1}

\* ------------------------------------------------- a rank that never calls
\* The blocks of the ranks in absent never reach sync_remote_blocks (their
\* kernel was not launched, or took another path); the other blocks call it
\* once.  The code has no exit from the two loops besides a successful cas.
CallPresent(rank) == rank \notin absent /\ Call(rank)

NextAbsent ==
  \/ \E rank \in RankIds : CallPresent(rank)
  \/ \E rank \in RankIds, tid \in ThreadIds : Put(rank, tid)
  \/ \E rank \in RankIds, tid \in ThreadIds : Wait(rank, tid)

\* Some rank is absent, or the world has a single rank.
InitAbsent ==
  /\ InitPads
  /\ num_calls = 1
  /\ absent \in SUBSET Ranks
  /\ (absent # {} \/ world_size = 1)

FairnessAbsent == WF_vars(NextAbsent)

SpecAbsent == InitAbsent /\ [][NextAbsent]_vars /\ FairnessAbsent

\* The threads of the present ranks whose target rank is absent are all
\* inside wait_signal.
WaitingForAbsent ==
  \A A \in Ranks \ absent, p \in absent : pc[A][p] = "wait"

\* C11: when the block of a rank p never reaches the call while the blocks of
\* the other ranks do, then on every other rank the thread whose target rank
\* is p never returns: it gets into wait_signal and stays there for ever,
\* there being no time-out and no cancellation.
C11_PeerAbsentNeverReturns ==
  (CasCompiled /\ absent # {}) =>
    ( /\ [](\A A \in Ranks \ absent, p \in absent : pc[A][p] # "done")
      /\ <>[]WaitingForAbsent )

C11_Witness ==
  /\ world_size = NumRanks
  /\ absent = {NumRanks - 1}
  /\ pc[0][NumRanks - 1] = "wait"
  /\ pc[0][0] = "done"
  /\ signal_pads[NumRanks - 1][blockIdx * world_size].val = 1
  /\ \A t \in ThreadIds : pc[NumRanks - 1][t] = "start"

\* ------------------------------------------------ unmatched puts and waits
\* One word that starts at word0 (0: clear, 1: already posted), a producer
\* that calls put_signal put_calls times and a consumer that calls
\* wait_signal wait_calls times; either number may be 0.
InitUnmatched ==
  /\ build \in {BuildRocm, BuildSm70, BuildSm80}
  /\ put_sem \in MemOpSem
  /\ wait_sem \in MemOpSem
  /\ put_calls \in 0 .. MaxEpochs
  /\ wait_calls \in 0 .. MaxEpochs
  /\ word0 \in {0, 1}
  /\ word = [val |-> word0, rel |-> {}]
  /\ spun = {}
  /\ IdleAlign /\ IdleMc /\ IdleEpochs
  /\ epochs = 0 /\ puts = 0 /\ waits = 0 /\ trace = <<0>> /\ halted = FALSE
  /\ IdleCas
  /\ sync_sem = "Relaxed" /\ world_size = 1 /\ blockIdx = 0 /\ absent = {}
  /\ InitSync

\* One iteration of the loop of the producer's current put_signal call.
PutCall ==
  /\ ~halted
  /\ puts < put_calls
  /\ LET r == put_signal(put_sem, build, word, {})
     IN  /\ word' = r.cell
         /\ puts' = IF r.returned THEN puts + 1 ELSE puts
         /\ spun' = IF r.returned \/ r.status # "ok"
                    THEN spun \ {"put"} ELSE spun \cup {"put"}
         /\ halted' = (r.status # "ok")
  /\ UNCHANGED <<word0, put_sem, wait_sem, epochs, waits, trace>>
  /\ UNCHANGED <<put_calls, wait_calls, extButCalls>>
  /\ UNCHANGED <<paramVars, syncVars, visVars, casVars>>

\* One iteration of the loop of the consumer's current wait_signal call.
WaitCall ==
  /\ ~halted
  /\ waits < wait_calls
  /\ LET r == wait_signal(wait_sem, build, word, {})
     IN  /\ word' = r.cell
         /\ waits' = IF r.returned THEN waits + 1 ELSE waits
         /\ spun' = IF r.returned \/ r.status # "ok"
                    THEN spun \ {"wait"} ELSE spun \cup {"wait"}
         /\ halted' = (r.status # "ok")
  /\ UNCHANGED <<word0, put_sem, wait_sem, epochs, puts, trace>>
  /\ UNCHANGED <<put_calls, wait_calls, extButCalls>>
  /\ UNCHANGED <<paramVars, syncVars, visVars, casVars>>

NextUnmatched == PutCall \/ WaitCall

SpecUnmatched == InitUnmatched /\ [][NextUnmatched]_vars

\* C12: an unmatched put or wait never returns: no wait_signal returns on a
\* word that starts clear and that no put_signal posts, no put_signal returns
\* on a word that starts posted and that no wait_signal clears; in general
\* the calls that have returned are matched: a wait by the initial signal or
\* an earlier put, a put by the initial clear word or an earlier wait.
C12_UnmatchedNeverReturns ==
  /\ (put_calls = 0 /\ word0 = 0) => waits = 0
  /\ (wait_calls = 0 /\ word0 = 1) => puts = 0
  /\ waits <= word0 + puts
  /\ puts <= (1 - word0) + waits

C12_Witness ==
  /\ put_calls = 0 /\ word0 = 0 /\ wait_calls > 0
  /\ "wait" \in spun
  /\ waits = 0 /\ word.val = 0 /\ ~halted

\* ------------------------------------------------------------ get_alignment
\* A caller holds an address or a size in 0 .. MaxAddr and asks for its
\* alignment once, through the pointer version or the size_t version.
InitAlign ==
  /\ align_val \in 0 .. MaxAddr
  /\ align_kind = "none"
  /\ align_ret = {}
  /\ build = BuildSm80
  /\ sync_sem = "Relaxed" /\ world_size = 1 /\ blockIdx = 0 /\ absent = {}
  /\ InitSync /\ IdleWord /\ IdleCas /\ IdleSem /\ IdleCalls /\ IdleMc
  /\ IdleEpochs

AlignPtr ==
  /\ align_kind = "none"
  /\ align_kind' = "ptr"
  /\ align_ret' = {get_alignment(align_val)}
  /\ UNCHANGED <<align_val, extButAlign>>
  /\ UNCHANGED <<paramVars, syncVars, visVars, wordVars, casVars, semVars>>

AlignSize ==
  /\ align_kind = "none"
  /\ align_kind' = "size"
  /\ align_ret' = {get_alignment_size_t(align_val)}
  /\ UNCHANGED <<align_val, extButAlign>>
  /\ UNCHANGED <<paramVars, syncVars, visVars, wordVars, casVars, semVars>>

NextAlign == AlignPtr \/ AlignSize

SpecAlign == InitAlign /\ [][NextAlign]_vars

\* The members of Alignments that divide v.
DividingAlignments(v) == {a \in Alignments : v % a = 0}

\* C13: for every address or size v, get_alignment returns the largest of
\* 16, 8, 4, 2, 1 that divides v (16 for 48, 1 for 17); for v = 0, which all
\* of them divide, it returns 16.
C13_LargestDividingAlignment ==
  align_kind # "none" =>
    /\ \E a \in DividingAlignments(align_val) :
         /\ align_ret = {a}
         /\ \A b \in DividingAlignments(align_val) : b <= a
    /\ (align_val = 0 => align_ret = {16})
    /\ (align_val = 48 => align_ret = {16})
    /\ (align_val = 17 => align_ret = {1})

C13_Witness ==
  /\ align_kind = "size"
  /\ align_val = 48
  /\ align_ret = {16}

\* -------------------------------------------------------- multicast memory
\* Element values the buffers are filled with: 0, 1, and the largest values
\* of 8 and of 24 bits.
Samples == {0, 1, 255, 16777215}

ElementValues(asm_type) ==
  {x \in Samples : Representable(x, Significand(asm_type))}

\* A Vec<Alignment> whose elements alternate between a and b.
VecOf(Alignment, asm_type, a, b) ==
  [i \in WordIds(Alignment) |->
     IF i % 2 = 1 THEN WordOf(asm_type, a, b) ELSE WordOf(asm_type, b, a)]

\* A buffer of element type mc_type is mapped on all devices at one multicast
\* address; mem holds the mc_align bytes at that address, which device d's
\* copy has filled with the value fill[d].  A kernel
\* compiled under build uses the operations with Alignment mc_align.
InitMc ==
  /\ build \in Builds
  /\ mc_type \in AsmTypes
  /\ mc_align \in VecWidths
  /\ \E fill \in [Devices -> ElementValues(mc_type)] :
       mem = [d \in Devices |->
                [i \in WordIds(mc_align) |->
                   WordOf(mc_type, fill[d], fill[d])]]
  /\ mc_stored = {}
  /\ mc_ret = {}
  /\ mc_aborted = FALSE
  /\ sync_sem = "Relaxed" /\ world_size = 1 /\ blockIdx = 0 /\ absent = {}
  /\ InitSync /\ IdleWord /\ IdleCas /\ IdleSem /\ IdleCalls /\ IdleAlign
  /\ IdleEpochs

\* A thread of device d stores the Vec of elements a, b with multimem_st.
Store(d, a, b) ==
  /\ ~mc_aborted
  /\ mc_stored = {}
  /\ LET vec == VecOf(mc_align, mc_type, a, b)
         r == multimem_st(mc_align, build, mem, vec)
     IN  /\ mem' = r.mem
         /\ mc_aborted' = (r.status = "abort")
         /\ mc_stored' =
              IF r.status = "ok"
              THEN {[vec |-> vec,
                     others_zero |->
                       \A o \in Devices \ {d} :
                         mem[o] = [i \in WordIds(mc_align) |->
                                     WordOf(mc_type, 0, 0)]]}
              ELSE {}
         /\ mc_ret' = {}
  /\ UNCHANGED <<mc_type, mc_align, extButMc>>
  /\ UNCHANGED <<paramVars, syncVars, visVars, wordVars, casVars, semVars>>

\* A thread of device d reads the address with multimem_ld_reduce_add; the
\* hardware accumulates in one of its modes.
Load(d, mode) ==
  /\ ~mc_aborted
  /\ LET r == multimem_ld_reduce_add(mc_align, mc_type, build, mem, mode)
     IN  /\ mc_aborted' = (r.status = "abort")
         /\ mc_ret' = IF r.status = "ok" THEN {r.vec} ELSE mc_ret
  /\ UNCHANGED <<mc_type, mc_align, mem, mc_stored, extButMc>>
  /\ UNCHANGED <<paramVars, syncVars, visVars, wordVars, casVars, semVars>>

NextMc ==
  \/ \E d \in Devices, a, b \in ElementValues(mc_type) : Store(d, a, b)
  \/ \E d \in Devices, mode \in AccModes : Load(d, mode)

SpecMc == InitMc /\ [][NextMc]_vars

AbsDiff(x, y) == IF x >= y THEN x - y ELSE y - x

\* y is the sum exact of n elements of p bits of significand up to rounding:
\* exact itself when that has at most p bits, and within n units of relative
\* precision 2^-p of it otherwise.
WithinRounding(y, exact, p, n) ==
  /\ (exact < 2^p => y = exact)
  /\ AbsDiff(y, exact) <= (n * exact) \div 2^p

ZeroVec(v) == \A i \in DOMAIN v : \A e \in DOMAIN v[i] : v[i][e] = 0

\* The original reading of C14: after one device has stored V while the
\* copies of the other devices held 0, the load-reduce returns V.
C14_RoundTripReturnsV ==
  \A s \in mc_stored : \A v \in mc_ret : s.others_zero => v = s.vec

\* C14: after one device has stored V with multimem_st, the copy of every
\* mapped device holds V, whatever it held before, and a following
\* multimem_ld_reduce_add returns in every lane the sum of the NumDevices
\* copies of V up to rounding, which is V itself only if there is one device
\* or V is zero.
C14_RoundTripReturnsSum ==
  \A s \in mc_stored :
    /\ \A d \in Devices : mem[d] = s.vec
    /\ \A v \in mc_ret :
         /\ DOMAIN v = DOMAIN s.vec
         /\ \A i \in DOMAIN v : \A e \in 1 .. ElementsPerWord(mc_type) :
              WithinRounding(v[i][e], NumDevices * s.vec[i][e],
                             Significand(mc_type), NumDevices)
         /\ (v = s.vec => (NumDevices = 1 \/ ZeroVec(s.vec)))

C14_Witness ==
  /\ mc_type = "bf16x2"
  /\ mc_align = 16
  /\ mc_ret # {}
  /\ \E s \in mc_stored :
       s.others_zero /\ s.vec[1][1] = 255 /\ s.vec[1][2] = 1

SameOnAllDevices == \A d \in Devices : mem[d] = mem[1]

LacksMulticast ==
  build.use_rocm \/ build.cuda_arch < 900 \/ build.cudart < 12010

\* C16: under a build without multicast support every multimem_st and every
\* multimem_ld_reduce_add, of any width, stops the kernel: no value is ever
\* returned and no copy is ever written.
C16_UnsupportedAborts ==
  /\ [](LacksMulticast => (mc_ret = {} /\ mc_stored = {}))
  /\ [][LacksMulticast => (mem' = mem /\ mc_ret' = {} /\ mc_aborted')]_vars

C16_Witness ==
  /\ build = BuildSm90Old
  /\ mc_align = 16
  /\ mc_aborted
  /\ mc_ret = {}

\* ------------------------------------------- threads beyond world_size
\* The steps a thread of the first world_size makes through one call.
CallSteps == {<<"start", "put">>, <<"put", "wait">>, <<"wait", "done">>}

\* C17: in a sync_remote_blocks call a thread whose index is >= world_size
\* makes no put and no wait and touches no memory: it returns at once and
\* leaves every slot of every signal pad as it was; the threads with index
\* 0 .. world_size-1, and only they, go through one put_signal and then one
\* wait_signal.
C17_OnlyFirstThreadsParticipate ==
  /\ [](\A rank \in RankIds, tid \in ThreadIds :
          tid >= world_size =>
            (pc[rank][tid] \in {"start", "done"} /\ view[rank][tid] = {}))
  /\ [][\A rank \in RankIds, tid \in ThreadIds :
          pc'[rank][tid] # pc[rank][tid] =>
            IF tid >= world_size
            THEN /\ pc[rank][tid] = "start" /\ pc'[rank][tid] = "done"
                 /\ signal_pads' = signal_pads
            ELSE /\ <<pc[rank][tid], pc'[rank][tid]>> \in CallSteps
                 /\ (pc[rank][tid] = "start" => signal_pads' = signal_pads)
                 /\ (pc[rank][tid] # "start" => signal_pads' # signal_pads)
       ]_vars

C17_Witness ==
  /\ world_size = 1
  /\ pc[0][0] = "wait"
  /\ \A tid \in ThreadIds \ {0} : pc[0][tid] = "done"
  /\ signal_pads[0][blockIdx].val = 1

\* -------------------------------------------- one producer, one consumer
\* The threads that take part in the call: thread tid of rank's block.
Participants == Ranks \X Ranks

\* C18: every slot has exactly one producer and one consumer: slot
\* [blockIdx, r] of rank A's pad is the one thread A of rank r puts to and
\* the one thread r of rank A waits on; no two threads put to the same slot
\* and no two wait on the same slot; and every put is matched by exactly one
\* wait on the same slot: the slot holds 1 exactly while its producer has
\* put and its consumer has not yet finished waiting.
C18_OneProducerOneConsumer ==
  /\ \A A \in Ranks, r \in Ranks :
       /\ PutAddr(r, A, blockIdx, world_size) = <<A, blockIdx * world_size + r>>
       /\ WaitAddr(A, r, blockIdx, world_size) = <<A, blockIdx * world_size + r>>
  /\ \A t \in Participants, u \in Participants :
       t # u =>
         /\ PutAddr(t[1], t[2], blockIdx, world_size)
              # PutAddr(u[1], u[2], blockIdx, world_size)
         /\ WaitAddr(t[1], t[2], blockIdx, world_size)
              # WaitAddr(u[1], u[2], blockIdx, world_size)
  /\ \A A \in Ranks, r \in Ranks :
       signal_pads[A][blockIdx * world_size + r].val =
         (IF pc[r][A] \in {"wait", "done"} THEN 1 ELSE 0)
         - (IF pc[A][r] = "done" THEN 1 ELSE 0)

C18_Witness ==
  /\ world_size = NumRanks
  /\ pc[NumRanks - 1][0] = "done"
  /\ pc[0][NumRanks - 1] = "wait"
  /\ signal_pads[0][blockIdx * world_size + NumRanks - 1].val = 1
  /\ signal_pads[NumRanks - 1][blockIdx * world_size].val = 0

\* ------------------------------------------------------ back-to-back calls
\* Every block calls sync_remote_blocks num_calls times in a row with the same
\* block index and nothing in between: a thread that has returned from one
\* call enters the next at once.  (A thread beyond world_size returns at once
\* from every call; its further calls leave no trace in the state.)
Recall(rank, tid) ==
  /\ rank \in Ranks
  /\ ~aborted[rank]
  /\ Participates(tid, world_size)
  /\ pc[rank][tid] = "done"
  /\ epoch[rank][tid] + 1 < num_calls
  /\ pc' = [pc EXCEPT ![rank][tid] = "put"]
  /\ epoch' = [epoch EXCEPT ![rank][tid] = epoch[rank][tid] + 1]
  /\ UNCHANGED <<signal_pads, view, aborted>>
  /\ UNCHANGED <<num_calls, extButEpochs>>
  /\ UNCHANGED <<paramVars, visVars, wordVars, casVars, semVars>>

NextEpochs ==
  \/ \E rank \in RankIds : Call(rank)
  \/ \E rank \in RankIds, tid \in ThreadIds : Put(rank, tid)
  \/ \E rank \in RankIds, tid \in ThreadIds : Wait(rank, tid)
  \/ \E rank \in RankIds, tid \in ThreadIds : Recall(rank, tid)

\* The world sizes of the back-to-back calls.  The threads of a call pair up,
\* thread r of rank A with thread A of rank r, and a pair shares its two
\* slots with no other thread: a world of two ranks holds a whole pair next
\* to the self-targeting threads.
EpochWorlds == 1 .. 2

InitEpochs ==
  /\ InitPads
  /\ world_size \in EpochWorlds
  /\ absent = {}
  /\ blockIdx = NumBlocks - 1
  /\ num_calls \in 1 .. MaxEpochs

FairnessEpochs == WF_vars(NextEpochs)

SpecEpochs == InitEpochs /\ [][NextEpochs]_vars /\ FairnessEpochs

\* The calls thread tid of rank has started, and those it has completed.
Started(rank, tid) ==
  IF pc[rank][tid] = "start" THEN 0 ELSE epoch[rank][tid] + 1

Completed(rank, tid) ==
  IF pc[rank][tid] = "done" THEN epoch[rank][tid] + 1 ELSE epoch[rank][tid]

AllCallsReturned ==
  \A rank \in Ranks, tid \in Ranks : Completed(rank, tid) = num_calls

\* C19: when every rank calls sync_remote_blocks num_calls times in a row for
\* one block index, with no barrier in between, then under fair scheduling
\* all calls return, every slot holds 0 or 1 throughout and 0 at the end, and
\* for all ranks A and r the calls A's thread r has completed never exceed by
\* more than 1 the calls r's thread A has started.
C19_BackToBackEpochs ==
  /\ CasCompiled => <>AllCallsReturned
  /\ [](\A r \in RankIds, o \in Offsets : signal_pads[r][o].val \in {0, 1})
  /\ []((CasCompiled /\ AllCallsReturned) =>
          \A r \in RankIds, o \in Offsets : signal_pads[r][o].val = 0)
  /\ [](\A A \in Ranks, r \in Ranks :
          Completed(A, r) <= Started(r, A) + 1)

C19_Witness ==
  /\ world_size = NumRanks
  /\ num_calls = MaxEpochs
  /\ AllCallsReturned
  /\ sync_sem = "AcqRel"
  /\ \A r \in Ranks : ~aborted[r]

\* ------------------------------------------------ the self-targeting thread
\* Thread A of rank A: its put and its wait are on slot [blockIdx, A] of its
\* own pad.
SelfSlot(A) == <<A, blockIdx * world_size + A>>

SelfThreadsReturned ==
  \A A \in Ranks \ absent :
    pc[A][A] = "done" /\ signal_pads[A][blockIdx * world_size + A].val = 0

\* C20: the self-targeting thread puts to and then waits on one and the same
\* slot, [blockIdx, rank] of its own pad, so it completes whether or not any
\* peer ever reaches the call, and leaves that slot at 0; with world_size = 1
\* a call always returns and leaves the slot at 0.
C20_SelfThreadCompletes ==
  /\ [](\A A \in Ranks :
          /\ PutAddr(A, A, blockIdx, world_size) = SelfSlot(A)
          /\ WaitAddr(A, A, blockIdx, world_size) = SelfSlot(A))
  /\ [](\A A \in Ranks :
          pc[A][A] = "done" =>
            signal_pads[A][blockIdx * world_size + A].val = 0)
  /\ CasCompiled => <>[]SelfThreadsReturned
  /\ (CasCompiled /\ world_size = 1 /\ absent = {}) =>
       <>[](AllReturned /\ signal_pads[0][blockIdx].val = 0)

C20_Witness ==
  /\ world_size = NumRanks
  /\ absent = Ranks \ {0}
  /\ pc[0][0] = "done"
  /\ pc[0][NumRanks - 1] = "wait"
  /\ signal_pads[0][blockIdx * world_size].val = 0
  /\ signal_pads[NumRanks - 1][blockIdx * world_size].val = 1
====
